---------------------------- MODULE Spec2Model ----------------------------
(***************************************************************************)
(* A model of src/render/VisualElement.ts: the value registry, the         *)
(* frame-synchronised scheduling of render/update, and the mount/unmount   *)
(* lifecycle of a VisualElement.                                           *)
(*                                                                         *)
(* MotionValue (../value) and framesync (sync / cancelSync) are external   *)
(* collaborators.  They are modelled by the interface the class uses:      *)
(*   MotionValue: get(), onChange(cb) -> unsubscribe,                      *)
(*                onRenderRequest(cb) -> unsubscribe;                      *)
(*   framesync:   sync.update/render(cb) scheduling cb once (by identity)  *)
(*                for the next frame, cancelSync.update/render(cb)         *)
(*                removing cb (by identity), and a frame that runs the     *)
(*                update step before the render step.                      *)
(***************************************************************************)
EXTENDS Naturals, Sequences, FiniteSets

\* ------------------------------------------------------------------ bounds

\* VisualElement instances.  Focus are the ones the operations of Spec act on.
Nodes == {"n1", "n2"}
Focus == {"n1"}

\* Keys of values, MotionValue instances, resolved readings, DOM elements.
Keys == {"x", "y"}
MotionValues == {"v1", "v2"}
Readings == {"0px", "1px"}
Elements == {"div"}

\* `element` before the first mount (the field is declared but not initialised).
NoElement == "undefined"

\* Most live registrations one node holds on MotionValues at a time.
MaxSubscribers == 2

\* The count at which renderCalls and updateCalls saturate ("this many or more").
MaxCalls == 2

\* ------------------------------------------------------------------- state

VARIABLES
    element,             \* [Nodes -> Elements \cup {NoElement}]   this.element
    latest,              \* [Nodes -> [subset of Keys -> Readings]] this.latest
    values,              \* [Nodes -> [subset of Keys -> MotionValues]] this.values
    valueSubscriptions,  \* [Nodes -> [subset of Keys -> MotionValues]]: the
                         \* unsubscribe closure stored under a key, named by
                         \* the MotionValue whose registration it removes
    config,              \* [Nodes -> [onUpdate : BOOLEAN]]  this.config
    current,             \* [MotionValues -> Readings]  MotionValue.get()
    subscribers,         \* [Nodes \X Keys \X MotionValues -> Nat]: live
                         \* onChange/onRenderRequest registration pairs made
                         \* by subscribeToValue and not yet unsubscribed
    syncUpdate,          \* framesync's update step: callbacks for the next frame
    syncRender,          \* framesync's render step: callbacks for the next frame
    mounted,             \* history: the last call of ref() passed an element
                         \* (or mount() was called with one since)
    fired,               \* history: callbacks invoked by the last step, in order
    renderCalls,         \* history: scheduleRender() calls of a node since the
                         \* last frame fired and since its last ref(null)
    updateCalls,         \* history: onChange notifications of a node that found
                         \* config.onUpdate set, counted like renderCalls
    op,                  \* history: the operation the last step performed
    observe              \* which history a behaviour records: "ops" (op),
                         \* "args" (op with the call's arguments), "calls"
                         \* (renderCalls, updateCalls) or "none"; never changes

vars == <<element, latest, values, valueSubscriptions, config, current,
          subscribers, syncUpdate, syncRender, mounted, fired, renderCalls,
          updateCalls, op, observe>>

\* ----------------------------------------------------------------- helpers

EmptyMap == [k \in {} |-> 0]

Put(f, k, x) == [j \in (DOMAIN f) \cup {k} |-> IF j = k THEN x ELSE f[j]]

Remove(f, k) == [j \in (DOMAIN f) \ {k} |-> f[j]]

Registrations == Nodes \X Keys \X MotionValues

\* The mutable state the methods of the class read and write, as one record.
World ==
    [element |-> element, values |-> values, latest |-> latest,
     valueSubscriptions |-> valueSubscriptions, subscribers |-> subscribers,
     current |-> current, syncUpdate |-> syncUpdate, syncRender |-> syncRender]

\* Callback identities handed to framesync.
updateCallback(n) == <<n, "update">>
triggerRenderCallback(n) == <<n, "triggerRender">>
\* this.render is the method on the class prototype: one function shared by
\* every node of the class.
renderMethod(n) == <<"prototype", "render">>

\* --------------------------------------------------------------- framesync

\* sync.update(cb, false, true) / sync.render(cb, false, true): cb is added to
\* the step's buffer for the next frame unless that very callback is already
\* in it.
SyncSchedule(queue, cb) ==
    IF \E i \in 1..Len(queue) : queue[i] = cb THEN queue ELSE Append(queue, cb)

\* cancelSync.update(cb) / cancelSync.render(cb): cb is removed, by identity.
SyncCancel(queue, cb) == SelectSeq(queue, LAMBDA c : c # cb)

\* ------------------------------------------------------------- the methods

hasValue(w, n, k) == k \in DOMAIN w.values[n]

\* The closure subscribeToValue stores: unsubscribeOnChange() and
\* unsubscribeOnRender() of the registration pair it was created with.
unsubscribe(w, n, k) ==
    LET v == w.valueSubscriptions[n][k]
    IN  [w EXCEPT !.subscribers[<<n, k, v>>] = IF @ > 0 THEN @ - 1 ELSE 0]

\* Mutant of removeValue: the snapshot entry is left behind.
removeValueKeepingLatest(w, n, k) ==
    LET w1 == IF k \in DOMAIN w.valueSubscriptions[n]
              THEN unsubscribe(w, n, k) ELSE w
    IN  [w1 EXCEPT !.values[n] = Remove(@, k),
                   !.valueSubscriptions[n] = Remove(@, k)]

removeValue(w, n, k) ==
    LET w1 == IF k \in DOMAIN w.valueSubscriptions[n]
              THEN unsubscribe(w, n, k) ELSE w
    IN  [w1 EXCEPT !.values[n] = Remove(@, k),
                   !.latest[n] = Remove(@, k),
                   !.valueSubscriptions[n] = Remove(@, k)]

\* Mutant of setSingleStaticValue: the write also schedules a render.
setSingleStaticValueScheduling(w, n, k, x) ==
    [w EXCEPT !.latest[n] = Put(@, k, x),
              !.syncRender = SyncSchedule(@, triggerRenderCallback(n))]

setSingleStaticValue(w, n, k, x) == [w EXCEPT !.latest[n] = Put(@, k, x)]

\* Mutant of scheduleRender: a new closure is handed to sync.render on every
\* call, so framesync never recognises it as already scheduled.
scheduleRenderFreshClosure(w, n) ==
    [w EXCEPT !.syncRender = Append(@, triggerRenderCallback(n))]

scheduleRender(w, n) ==
    [w EXCEPT !.syncRender = SyncSchedule(@, triggerRenderCallback(n))]

\* Mutant of onChange: a new closure is handed to sync.update on every call.
onChangeFreshClosure(w, n, k, x) ==
    LET w2 == [w EXCEPT !.latest[n] = Put(@, k, x)]
    IN  IF config[n].onUpdate
        THEN [w2 EXCEPT !.syncUpdate = Append(@, updateCallback(n))]
        ELSE w2

\* Mutant of onChange: the update callback is put on the render step.
onChangeOnRenderStep(w, n, k, x) ==
    LET w2 == [w EXCEPT !.latest[n] = Put(@, k, x)]
    IN  IF config[n].onUpdate
        THEN [w2 EXCEPT !.syncRender = SyncSchedule(@, updateCallback(n))]
        ELSE w2

\* The onChange closure of subscribeToValue, called with the new reading.
onChange(w, n, k, x) ==
    LET w1 == setSingleStaticValue(w, n, k, x)
        w2 == [w1 EXCEPT !.latest[n] = Put(@, k, x)]
    IN  IF config[n].onUpdate
        THEN [w2 EXCEPT !.syncUpdate = SyncSchedule(@, updateCallback(n))]
        ELSE w2

subscribeToValue(w, n, k, v) ==
    [w EXCEPT !.subscribers[<<n, k, v>>] = @ + 1,
              !.valueSubscriptions[n] = Put(@, k, v)]

\* Mutant of addValue: the value is subscribed whether or not an element is set.
addValueAlwaysSubscribing(w, n, k, v) ==
    LET w1 == IF hasValue(w, n, k) THEN removeValue(w, n, k) ELSE w
        w2 == [w1 EXCEPT !.values[n] = Put(@, k, v),
                         !.latest[n] = Put(@, k, w1.current[v])]
    IN  subscribeToValue(w2, n, k, v)

\* Mutant of addValue: the reading is not snapshotted into latest.
addValueWithoutSnapshot(w, n, k, v) ==
    LET w1 == IF hasValue(w, n, k) THEN removeValue(w, n, k) ELSE w
        w2 == [w1 EXCEPT !.values[n] = Put(@, k, v)]
    IN  IF w2.element[n] # NoElement THEN subscribeToValue(w2, n, k, v) ELSE w2

\* Mutant of addValue: the subscription is always left to the next mount.
addValueDeferringSubscription(w, n, k, v) ==
    LET w1 == IF hasValue(w, n, k) THEN removeValue(w, n, k) ELSE w
    IN  [w1 EXCEPT !.values[n] = Put(@, k, v),
                   !.latest[n] = Put(@, k, w1.current[v])]

addValue(w, n, k, v) ==
    LET w1 == IF hasValue(w, n, k) THEN removeValue(w, n, k) ELSE w
        w2 == [w1 EXCEPT !.values[n] = Put(@, k, v),
                         !.latest[n] = Put(@, k, w1.current[v])]
    IN  IF w2.element[n] # NoElement THEN subscribeToValue(w2, n, k, v) ELSE w2

\* forEachValue((value, key) => this.subscribeToValue(key, value)) over `keys`.
RECURSIVE subscribeEach(_, _, _)
subscribeEach(w, n, keys) ==
    IF keys = {} THEN w
    ELSE LET k == CHOOSE j \in keys : TRUE
         IN  subscribeEach(subscribeToValue(w, n, k, w.values[n][k]), n,
                           keys \ {k})

\* forEachValue((_, key) => this.removeValue(key)) over `keys`: Map.forEach
\* visits every entry that is still present, so every key is removed.
RECURSIVE removeEach(_, _, _)
removeEach(w, n, keys) ==
    IF keys = {} THEN w
    ELSE LET k == CHOOSE j \in keys : TRUE
         IN  removeEach(removeValue(w, n, k), n, keys \ {k})

\* invariant(check, message) of hey-listen: the check passes, or an Error is
\* thrown.
invariant(check) == check

\* Mutant of mount: the host instance is stored and no value is subscribed.
mountWithoutSubscribing(w, n, e) ==
    IF ~invariant(e # NoElement) THEN w ELSE [w EXCEPT !.element[n] = e]

\* Mutant of mount: the invariant() call is missing.
mountWithoutInvariant(w, n, e) ==
    LET w1 == [w EXCEPT !.element[n] = e]
    IN  subscribeEach(w1, n, DOMAIN w1.values[n])

\* mount(element): when invariant() throws, nothing has been written yet.
mount(w, n, e) ==
    IF ~invariant(e # NoElement) THEN w
    ELSE LET w1 == [w EXCEPT !.element[n] = e]
         IN  subscribeEach(w1, n, DOMAIN w1.values[n])

\* Mutant of unmount: the subscriptions are cancelled and the bindings kept.
RECURSIVE unsubscribeEach(_, _, _)
unsubscribeEach(w, n, keys) ==
    IF keys = {} THEN w
    ELSE LET k == CHOOSE j \in keys : TRUE
             w1 == [unsubscribe(w, n, k) EXCEPT
                       !.valueSubscriptions[n] = Remove(@, k)]
         IN  unsubscribeEach(w1, n, keys \ {k})

unmountKeepingValues(w, n) ==
    LET w1 == unsubscribeEach(w, n, DOMAIN w.valueSubscriptions[n])
    IN  [w1 EXCEPT !.syncUpdate = SyncCancel(@, updateCallback(n)),
                   !.syncRender = SyncCancel(@, renderMethod(n))]

\* Mutant of unmount: the pending callbacks of every node are cancelled.
unmountCancellingEveryNode(w, n) ==
    LET w1 == removeEach(w, n, DOMAIN w.values[n])
    IN  [w1 EXCEPT !.syncUpdate = <<>>, !.syncRender = <<>>]

unmount(w, n) ==
    LET w1 == removeEach(w, n, DOMAIN w.values[n])
    IN  [w1 EXCEPT !.syncUpdate = SyncCancel(@, updateCallback(n)),
                   !.syncRender = SyncCancel(@, renderMethod(n))]

\* setStaticValues(values) with a mapping: every entry is written.
RECURSIVE setEach(_, _, _, _)
setEach(w, n, m, keys) ==
    IF keys = {} THEN w
    ELSE LET k == CHOOSE j \in keys : TRUE
         IN  setEach(setSingleStaticValue(w, n, k, m[k]), n, m, keys \ {k})

\* What a callback does when the frame invokes it: update calls
\* config.onUpdate with this.latest (a TypeError when onUpdate is absent),
\* triggerRender calls render().
update(n) ==
    IF config[n].onUpdate
    THEN [node |-> n, fn |-> "onUpdate", latest |-> latest[n]]
    ELSE [node |-> n, fn |-> "TypeError", latest |-> latest[n]]

triggerRender(n) == [node |-> n, fn |-> "render", latest |-> latest[n]]

Invoke(cb) ==
    IF cb[2] = "update" THEN update(cb[1]) ELSE triggerRender(cb[1])

\* `new MotionValue(defaultValue)`: an instance nothing refers to yet, whose
\* reading is the default.
Unreferenced(w, v) ==
    /\ \A n \in Nodes : \A k \in DOMAIN w.values[n] : w.values[n][k] # v
    /\ \A r \in Registrations : r[3] = v => w.subscribers[r] = 0

NoDefault == "undefined"

\* Mutant of getValue: the new MotionValue is not given the default.
getValueDroppingDefault(w, n, k, d, v) ==
    IF ~hasValue(w, n, k) /\ d # NoDefault THEN addValue(w, n, k, v) ELSE w

\* getValue(key, defaultValue) when a new MotionValue v is to be created.
getValue(w, n, k, d, v) ==
    IF ~hasValue(w, n, k) /\ d # NoDefault
    THEN addValue([w EXCEPT !.current[v] = d], n, k, v)
    ELSE w

getValueResult(w, n, k, d, v) ==
    IF hasValue(w, n, k) THEN w.values[n][k]
    ELSE IF d # NoDefault THEN v ELSE "undefined"

\* ref(element): mount with an element, unmount with null.
ref(w, n, e) == IF e # NoElement THEN mount(w, n, e) ELSE unmount(w, n)

\* ----------------------------------------------------------------- history

Sat(c) == IF c > MaxCalls THEN MaxCalls ELSE c

Zero == [n \in Nodes |-> 0]

\* The counts restart with the first step after a frame.
BaseRenderCalls == IF fired # <<>> THEN Zero ELSE renderCalls
BaseUpdateCalls == IF fired # <<>> THEN Zero ELSE updateCalls

Commit(w) ==
    /\ element' = w.element
    /\ values' = w.values
    /\ latest' = w.latest
    /\ valueSubscriptions' = w.valueSubscriptions
    /\ subscribers' = w.subscribers
    /\ current' = w.current
    /\ syncUpdate' = w.syncUpdate
    /\ syncRender' = w.syncRender

NoOp == [name |-> "-", node |-> "-", args |-> <<>>, result |-> "-"]

\* What a step leaves in the history variables; the arguments of the call are
\* recorded under observe = "args" only.
StepWith(name, n, args, result, rc, uc) ==
    /\ op' = IF observe = "ops"
             THEN [name |-> name, node |-> n, args |-> <<>>,
                   result |-> result]
             ELSE IF observe = "args"
             THEN [name |-> name, node |-> n, args |-> args,
                   result |-> result]
             ELSE NoOp
    /\ fired' = <<>>
    /\ renderCalls' = IF observe = "calls" THEN rc ELSE Zero
    /\ updateCalls' = IF observe = "calls" THEN uc ELSE Zero
    /\ observe' = observe

Step(name, n, result, rc, uc) == StepWith(name, n, <<>>, result, rc, uc)

RegistrationsOf(n) == {r \in Registrations : r[1] = n}

\* The number of live registrations node n holds.
Total(subs, n) ==
    Cardinality({p \in RegistrationsOf(n) \X (1..(MaxSubscribers + 1)) :
                    p[2] <= subs[p[1]]})

WithinBounds(w) ==
    LET subs == w.subscribers
    IN  \A n \in Nodes : Total(subs, n) <= MaxSubscribers

\* ------------------------------------------------------------------- state

\* The state after construction, in a behaviour recording history `o`.
InitWith(o) ==
    /\ element = [n \in Nodes |-> NoElement]
    /\ latest = [n \in Nodes |-> EmptyMap]
    /\ values = [n \in Nodes |-> EmptyMap]
    /\ valueSubscriptions = [n \in Nodes |-> EmptyMap]
    /\ config = [n \in Nodes |-> [onUpdate |-> FALSE]]
    /\ current \in [MotionValues -> Readings]
    /\ subscribers = [r \in Registrations |-> 0]
    /\ syncUpdate = <<>>
    /\ syncRender = <<>>
    /\ mounted = [n \in Nodes |-> FALSE]
    /\ fired = <<>>
    /\ renderCalls = Zero
    /\ updateCalls = Zero
    /\ op = NoOp
    /\ observe = o

\* ----------------------------------------------------------------- actions

AddValue(n, k, v) ==
    /\ LET w == addValue(World, n, k, v) IN WithinBounds(w) /\ Commit(w)
    /\ UNCHANGED <<config, mounted>>
    /\ StepWith("addValue", n, <<k, v>>, "-", BaseRenderCalls, BaseUpdateCalls)

\* op.result of removeValue is what this.values.delete(key) returns.
RemoveValue(n, k) ==
    /\ Commit(removeValue(World, n, k))
    /\ UNCHANGED <<config, mounted>>
    /\ StepWith("removeValue", n, <<k>>,
                IF hasValue(World, n, k) THEN "true" ELSE "false",
                BaseRenderCalls, BaseUpdateCalls)

GetValue(n, k, d) ==
    /\ (~hasValue(World, n, k) /\ d # NoDefault)
          => \E u \in MotionValues : Unreferenced(World, u)
    /\ LET v == IF \E u \in MotionValues : Unreferenced(World, u)
                THEN CHOOSE u \in MotionValues : Unreferenced(World, u)
                ELSE "undefined"
           w == getValue(World, n, k, d, v)
       IN  /\ WithinBounds(w)
           /\ Commit(w)
           /\ StepWith("getValue", n, <<k, d>>,
                       getValueResult(World, n, k, d, v),
                       BaseRenderCalls, BaseUpdateCalls)
    /\ UNCHANGED <<config, mounted>>

UpdateConfig(n, c) ==
    /\ config' = [config EXCEPT ![n] = c]
    /\ UNCHANGED <<element, values, latest, valueSubscriptions, subscribers,
                   current, syncUpdate, syncRender, mounted>>
    /\ Step("updateConfig", n, "-", BaseRenderCalls, BaseUpdateCalls)

\* setStaticValues(key, value)
SetStaticValue(n, k, x) ==
    /\ Commit(setSingleStaticValue(World, n, k, x))
    /\ UNCHANGED <<config, mounted>>
    /\ StepWith("setStaticValues", n, <<k, x>>, "-",
                BaseRenderCalls, BaseUpdateCalls)

\* setStaticValues(mapping)
SetStaticValues(n, m) ==
    /\ Commit(setEach(World, n, m, DOMAIN m))
    /\ UNCHANGED <<config, mounted>>
    /\ StepWith("setStaticValues", n, <<m>>, "-",
                BaseRenderCalls, BaseUpdateCalls)

ScheduleRender(n) ==
    /\ Commit(scheduleRender(World, n))
    /\ UNCHANGED <<config, mounted>>
    /\ Step("scheduleRender", n, "-",
            [BaseRenderCalls EXCEPT ![n] = Sat(@ + 1)], BaseUpdateCalls)

Ref(n, e) ==
    /\ LET w == ref(World, n, e) IN WithinBounds(w) /\ Commit(w)
    /\ mounted' = [mounted EXCEPT ![n] = (e # NoElement)]
    /\ UNCHANGED config
    /\ Step("ref", n, e,
            IF e = NoElement
            THEN [BaseRenderCalls EXCEPT ![n] = 0] ELSE BaseRenderCalls,
            IF e = NoElement
            THEN [BaseUpdateCalls EXCEPT ![n] = 0] ELSE BaseUpdateCalls)

\* mount(element) called directly, as a subclass may (the method is protected);
\* op.result is "Error" when the call throws.
Mount(n, e) ==
    /\ LET w == mount(World, n, e) IN WithinBounds(w) /\ Commit(w)
    /\ mounted' = IF e # NoElement THEN [mounted EXCEPT ![n] = TRUE]
                  ELSE mounted
    /\ UNCHANGED config
    /\ Step("mount", n, IF invariant(e # NoElement) THEN e ELSE "Error",
            BaseRenderCalls, BaseUpdateCalls)

\* The live registrations on MotionValue v, and the orders in which the
\* MotionValue may call them.
LiveOn(v) == {r \in Registrations : r[3] = v /\ subscribers[r] > 0}

Orders(S) ==
    {s \in [1..Cardinality(S) -> S] :
        \A i, j \in 1..Cardinality(S) : i # j => s[i] # s[j]}

RECURSIVE notifyChange(_, _, _, _)
notifyChange(w, ord, i, x) ==
    IF i > Len(ord) THEN w
    ELSE notifyChange(onChange(w, ord[i][1], ord[i][2], x), ord, i + 1, x)

RECURSIVE notifyRender(_, _, _)
notifyRender(w, ord, i) ==
    IF i > Len(ord) THEN w
    ELSE notifyRender(scheduleRender(w, ord[i][1]), ord, i + 1)

RECURSIVE CountFor(_, _)
CountFor(S, n) ==
    IF S = {} THEN 0
    ELSE LET r == CHOOSE q \in S : TRUE
         IN  (IF r[1] = n THEN subscribers[r] ELSE 0) + CountFor(S \ {r}, n)

\* A MotionValue takes a new reading and calls its onChange subscribers.
ValueChange(v, x) ==
    /\ x # current[v]
    /\ \E ord \in Orders(LiveOn(v)) :
          Commit(notifyChange([World EXCEPT !.current[v] = x], ord, 1, x))
    /\ UNCHANGED <<config, mounted>>
    /\ Step("change", "-", v, BaseRenderCalls,
            [n \in Nodes |->
                IF config[n].onUpdate
                THEN Sat(BaseUpdateCalls[n] + CountFor(LiveOn(v), n))
                ELSE BaseUpdateCalls[n]])

\* A MotionValue calls its onRenderRequest subscribers.
ValueRenderRequest(v) ==
    /\ LiveOn(v) # {}
    /\ \E ord \in Orders(LiveOn(v)) : Commit(notifyRender(World, ord, 1))
    /\ UNCHANGED <<config, mounted>>
    /\ Step("renderRequest", "-", v,
            [n \in Nodes |-> Sat(BaseRenderCalls[n] + CountFor(LiveOn(v), n))],
            BaseUpdateCalls)

\* A frame: the update step runs its callbacks, then the render step.
Tick ==
    /\ syncUpdate # <<>> \/ syncRender # <<>>
    /\ fired' = [i \in 1..Len(syncUpdate) |-> Invoke(syncUpdate[i])]
                \o [i \in 1..Len(syncRender) |-> Invoke(syncRender[i])]
    /\ syncUpdate' = <<>>
    /\ syncRender' = <<>>
    /\ op' = IF observe \in {"ops", "args"}
             THEN [name |-> "tick", node |-> "-", args |-> <<>>,
                   result |-> "-"]
             ELSE NoOp
    /\ UNCHANGED <<element, values, latest, valueSubscriptions, subscribers,
                   current, config, mounted, renderCalls, updateCalls, observe>>

Configs == {[onUpdate |-> TRUE], [onUpdate |-> FALSE]}

Mappings == [Keys -> Readings]

NodeNext(n) ==
    \/ \E k \in Keys, v \in MotionValues : AddValue(n, k, v)
    \/ \E k \in Keys : RemoveValue(n, k)
    \/ \E k \in Keys, d \in Readings \cup {NoDefault} : GetValue(n, k, d)
    \/ \E c \in Configs : UpdateConfig(n, c)
    \/ \E k \in Keys, x \in Readings : SetStaticValue(n, k, x)
    \/ \E m \in Mappings : SetStaticValues(n, m)
    \/ ScheduleRender(n)
    \/ \E e \in Elements \cup {NoElement} : Ref(n, e)
    \/ \E e \in {NoElement} : Mount(n, e)

Next ==
    \/ \E n \in Focus : NodeNext(n)
    \/ \E v \in MotionValues, x \in Readings : ValueChange(v, x)
    \/ \E v \in MotionValues : ValueRenderRequest(v)
    \/ Tick

\* Behaviours recording the last operation.
Init == InitWith("ops")

Spec == Init /\ [][Next]_vars

\* Behaviours recording the calls made in the current frame.
InitFrames == InitWith("calls")

SpecFrames == InitFrames /\ [][Next]_vars

\* Behaviours recording the last operation with its arguments.
InitArgs == InitWith("args")

SpecArgs == InitArgs /\ [][Next]_vars

\* Behaviours of two nodes that share the frame clock and the MotionValues:
\* each binds one value under one key, is configured, schedules renders and
\* is mounted and unmounted.
SiblingKeys == {"x"}
SiblingValues == {"v1"}

SiblingNext(n) ==
    \/ \E k \in SiblingKeys, v \in SiblingValues : AddValue(n, k, v)
    \/ \E c \in Configs : UpdateConfig(n, c)
    \/ ScheduleRender(n)
    \/ \E e \in Elements \cup {NoElement} : Ref(n, e)

NextSiblings ==
    \/ \E n \in Nodes : SiblingNext(n)
    \/ \E v \in SiblingValues, x \in Readings : ValueChange(v, x)
    \/ \E v \in SiblingValues : ValueRenderRequest(v)
    \/ Tick

\* They record neither history: a step is told by what it changes.
InitSiblings == InitWith("none")

SpecSiblings == InitSiblings /\ [][NextSiblings]_vars

\* ------------------------------------------------------------------ claims

AfterTick == fired # <<>>

RenderCount(n) ==
    Cardinality({i \in 1..Len(fired) :
                    fired[i].node = n /\ fired[i].fn = "render"})

OnUpdateCount(n) ==
    Cardinality({i \in 1..Len(fired) :
                    fired[i].node = n /\ fired[i].fn = "onUpdate"})

\* The step is a call of ref(null) on node n (as op records it under Spec).
Unmounting(n) ==
    op'.name = "ref" /\ op'.node = n /\ op'.result = NoElement

\* The step is MotionValue v notifying its onChange subscribers.
Changing(v) == op'.name = "change" /\ op'.result = v

\* C1: a render scheduled with scheduleRender() and followed by ref(null) on
\* the node before the frame fires is not invoked by that frame: the frame
\* invokes render() of a node that has been mounted only if scheduleRender()
\* was called on it after its last ref(null).
C1_UnmountCancelsScheduledRender ==
    \A n \in Nodes :
        (AfterTick /\ element[n] # NoElement /\ renderCalls[n] = 0)
            => RenderCount(n) = 0

\* C2: a change notification from a MotionValue other than the one currently
\* bound under key k (such as a value that addValue replaced) never alters
\* latest[k].
C2_ReplacedValueNeverAltersLatest ==
    [][\A v \in MotionValues :
          Changing(v) =>
              \A n \in Nodes : \A k \in DOMAIN values[n] :
                  values[n][k] # v =>
                      /\ k \in DOMAIN latest'[n]
                      /\ latest'[n][k] = latest[n][k]]_vars

\* C3: when ref(null) returns, the node has no live registration on any
\* MotionValue.
C3_NoRegistrationSurvivesUnmount ==
    \A n \in Nodes :
        (op.name = "ref" /\ op.node = n /\ op.result = NoElement)
            => Total(subscribers, n) = 0

\* C4: if scheduleRender() was called on a node one or more times before a
\* frame (directly or by render requests of bound values), the frame invokes
\* the node's render() exactly once.
C4_OneRenderPerTick ==
    \A n \in Nodes : (AfterTick /\ renderCalls[n] >= 1) => RenderCount(n) = 1

C4_Witness ==
    /\ AfterTick
    /\ renderCalls["n1"] >= 2
    /\ RenderCount("n1") = 1

\* C5: however many change notifications reach a node within one frame, the
\* frame invokes the node's onUpdate at most once.
C5_OneUpdatePerTick == \A n \in Nodes : OnUpdateCount(n) <= 1

C5_Witness ==
    /\ AfterTick
    /\ mounted["n1"]
    /\ updateCalls["n1"] >= 2
    /\ DOMAIN values["n1"] = Keys
    /\ OnUpdateCount("n1") = 1

\* C6: onUpdate is invoked with the latest snapshot as it stands when the
\* frame fires, and a render of the same node in that frame comes after it.
C6_UpdateBeforeRender ==
    \A i \in 1..Len(fired) :
        fired[i].fn = "onUpdate" =>
            /\ fired[i].latest = latest[fired[i].node]
            /\ \A j \in 1..Len(fired) :
                   (fired[j].fn = "render" /\ fired[j].node = fired[i].node)
                       => i < j

C6_Witness ==
    /\ mounted["n1"]
    /\ updateCalls["n1"] >= 1
    /\ renderCalls["n1"] >= 1
    /\ Len(fired) = 2
    /\ fired[1].fn = "onUpdate" /\ fired[1].node = "n1"
    /\ fired[2].fn = "render" /\ fired[2].node = "n1"
    /\ \E k \in DOMAIN values["n1"] :
           fired[1].latest[k] = current[values["n1"][k]]

\* C7 as claimed: ref(null) on a node that is already Unmounted changes none
\* of values, subscriptions, latest and the host instance.
C7_UnmountWhenUnmountedIsNoOp ==
    [][\A n \in Nodes :
          (~mounted[n] /\ Unmounting(n)) =>
              /\ values'[n] = values[n]
              /\ valueSubscriptions'[n] = valueSubscriptions[n]
              /\ latest'[n] = latest[n]
              /\ element'[n] = element[n]]_vars

\* C7 as amended: ref(null) on a node that is already Unmounted leaves the host
\* instance as it is and removes every value binding: values and subscriptions
\* become empty and latest loses exactly the keys that were bound.
C7_UnmountWhenUnmountedRemovesBindings ==
    [][\A n \in Nodes :
          (~mounted[n] /\ Unmounting(n)) =>
              /\ DOMAIN values'[n] = {}
              /\ DOMAIN valueSubscriptions'[n] = {}
              /\ DOMAIN latest'[n] = (DOMAIN latest[n]) \ (DOMAIN values[n])
              /\ \A k \in DOMAIN latest'[n] : latest'[n][k] = latest[n][k]
              /\ element'[n] = element[n]]_vars

C7_Witness ==
    /\ op.name = "ref" /\ op.node = "n1" /\ op.result = NoElement
    /\ element["n1"] = NoElement
    /\ DOMAIN values["n1"] = {}
    /\ DOMAIN latest["n1"] # {}

\* C8 as claimed: removeValue(key) for a key with no bound MotionValue changes
\* none of values, subscriptions and latest.
C8_RemoveUnboundIsNoOp ==
    [][\A n \in Nodes, k \in Keys :
          (~hasValue(World, n, k) /\ RemoveValue(n, k)) =>
              /\ values'[n] = values[n]
              /\ valueSubscriptions'[n] = valueSubscriptions[n]
              /\ latest'[n] = latest[n]]_vars

\* C8 as amended: removeValue(key) for a key with no bound MotionValue leaves
\* values, subscriptions and every other key of latest unchanged, and deletes
\* latest[key] if it is present.
C8_RemoveUnboundDeletesLatestOnly ==
    [][\A n \in Nodes, k \in Keys :
          (~hasValue(World, n, k) /\ RemoveValue(n, k)) =>
              /\ values'[n] = values[n]
              /\ valueSubscriptions'[n] = valueSubscriptions[n]
              /\ subscribers' = subscribers
              /\ latest'[n] = Remove(latest[n], k)]_vars

C8_Witness ==
    /\ op.name = "removeValue" /\ op.node = "n1" /\ op.result = "false"
    /\ mounted["n1"]
    /\ DOMAIN values["n1"] # {}
    /\ DOMAIN valueSubscriptions["n1"] = DOMAIN values["n1"]
    /\ DOMAIN latest["n1"] = DOMAIN values["n1"]

\* C9: the host instance is present exactly while the node is Mounted.
C9_HostInstanceIffMounted ==
    \A n \in Nodes : (element[n] # NoElement) <=> mounted[n]

\* C10: while the node is Unmounted, a change notification from the
\* MotionValue bound under key k leaves latest[k] at the reading that addValue
\* snapshotted.
C10_NoSubscriptionWhileUnmounted ==
    [][\A v \in MotionValues :
          Changing(v) =>
              \A n \in Nodes : \A k \in DOMAIN values[n] :
                  (~mounted[n] /\ values[n][k] = v) =>
                      /\ k \in DOMAIN latest'[n]
                      /\ latest'[n][k] = latest[n][k]]_vars

\* The step is a call of ref(element) on node n (as op records it under Spec).
Mounting(n) == op'.name = "ref" /\ op'.node = n /\ op'.result # NoElement

\* C11: ref(element) stores the element and subscribes every binding in
\* values; while the node is Mounted, a change notification with reading x
\* from the MotionValue bound under k sets latest[k] to x within the step.
C11_MountSubscribesEveryBinding ==
    [][\A n \in Nodes :
          /\ Mounting(n) =>
                /\ element'[n] = op'.result
                /\ \A k \in DOMAIN values'[n] :
                       /\ k \in DOMAIN valueSubscriptions'[n]
                       /\ subscribers'[<<n, k, values'[n][k]>>] >= 1
          /\ \A v \in MotionValues :
                (mounted[n] /\ Changing(v)) =>
                    \A k \in DOMAIN values[n] :
                        values[n][k] = v =>
                            /\ k \in DOMAIN latest'[n]
                            /\ latest'[n][k] = current'[v]]_vars

\* Right after ref(element): a binding made before the node was ever mounted,
\* whose snapshot had gone stale, now has its one registration.
C11_Witness ==
    /\ op.name = "ref" /\ op.node = "n1" /\ op.result # NoElement
    /\ \E k \in DOMAIN values["n1"] :
           /\ latest["n1"][k] # current[values["n1"][k]]
           /\ subscribers[<<"n1", k, values["n1"][k]>>] = 1

\* C12: mount(null) throws, and the call leaves the host instance, values,
\* subscriptions, latest and the registrations on MotionValues as they were.
C12_MountNullThrowsBeforeAnyChange ==
    [][\A n \in Nodes :
          (op'.name = "mount" /\ op'.node = n) =>
              /\ op'.result = "Error"
              /\ element' = element
              /\ values' = values
              /\ valueSubscriptions' = valueSubscriptions
              /\ latest' = latest
              /\ subscribers' = subscribers]_vars

C12_Witness ==
    /\ op.name = "mount" /\ op.node = "n1" /\ op.result = "Error"
    /\ element["n1"] = NoElement
    /\ DOMAIN values["n1"] = Keys
    /\ DOMAIN valueSubscriptions["n1"] = {}

\* C13: every key of valueSubscriptions is a key of values, and a node with a
\* subscription has an element stored.
C13_SubscriptionsNeedValueAndHost ==
    \A n \in Nodes : \A k \in DOMAIN valueSubscriptions[n] :
        k \in DOMAIN values[n] /\ element[n] # NoElement

C13_Witness ==
    /\ op.name = "addValue" /\ op.node = "n1"
    /\ element["n1"] # NoElement
    /\ DOMAIN valueSubscriptions["n1"] = Keys

\* C14: while a node is Mounted, valueSubscriptions and values have the same
\* keys.
C14_SubscriptionsEqualValuesWhileMounted ==
    \A n \in Nodes :
        mounted[n] => DOMAIN valueSubscriptions[n] = DOMAIN values[n]

\* Mounted, with one binding made by getValue(key, default) after the mount.
C14_Witness ==
    /\ op.name = "getValue" /\ op.node = "n1"
    /\ mounted["n1"]
    /\ DOMAIN values["n1"] = Keys
    /\ \E k \in Keys :
           /\ values["n1"][k] = op.result
           /\ subscribers[<<"n1", k, op.result>>] = 1
           /\ \A j \in Keys \ {k} : values["n1"][j] # op.result

\* The callbacks of node n in a step's buffer.
EntriesOf(queue, n) == SelectSeq(queue, LAMBDA c : c[1] = n)

\* The step unmounts node n: ref(null) on a Mounted node.
Unmounted(n) == mounted[n] /\ ~mounted'[n]

\* C15: unmounting one node leaves the pending update and render entries of
\* every other node as they were, and a frame invokes every pending entry of
\* a node exactly once (a node never has more than one per step).
C15_UnmountLeavesSiblingEntries ==
    [][/\ \A n \in Nodes :
             Unmounted(n) =>
                 \A m \in Nodes \ {n} :
                     /\ EntriesOf(syncUpdate', m) = EntriesOf(syncUpdate, m)
                     /\ EntriesOf(syncRender', m) = EntriesOf(syncRender, m)
       /\ fired' # <<>> =>
             \A m \in Nodes :
                 /\ Len(EntriesOf(syncUpdate, m)) <= 1
                 /\ Len(EntriesOf(syncRender, m)) <= 1
                 /\ Cardinality({i \in 1..Len(fired') :
                                    /\ fired'[i].node = m
                                    /\ fired'[i].fn # "render"})
                        = Len(EntriesOf(syncUpdate, m))
                 /\ Cardinality({i \in 1..Len(fired') :
                                    /\ fired'[i].node = m
                                    /\ fired'[i].fn = "render"})
                        = Len(EntriesOf(syncRender, m))]_vars

\* n1 has been unmounted with the render it had scheduled still pending, and
\* an update and a render of the Mounted n2 are pending.
C15_Witness ==
    /\ element["n1"] # NoElement /\ ~mounted["n1"]
    /\ DOMAIN values["n1"] = {}
    /\ mounted["n2"]
    /\ EntriesOf(syncUpdate, "n2") = <<updateCallback("n2")>>
    /\ EntriesOf(syncRender, "n2") = <<triggerRenderCallback("n2")>>
    /\ EntriesOf(syncRender, "n1") = <<triggerRenderCallback("n1")>>

\* The registry, the host instance, the MotionValues and the frame clock are
\* left as they are, apart from latest.
OnlyLatestMayChange ==
    UNCHANGED <<element, values, valueSubscriptions, subscribers, current,
                syncUpdate, syncRender, config>>

\* Node n's bindings under the keys other than k are left as they are.
OtherKeysUnchanged(n, k) ==
    /\ Remove(values'[n], k) = Remove(values[n], k)
    /\ Remove(latest'[n], k) = Remove(latest[n], k)
    /\ Remove(valueSubscriptions'[n], k) = Remove(valueSubscriptions[n], k)
    /\ \A j \in Keys \ {k}, v \in MotionValues :
           subscribers'[<<n, j, v>>] = subscribers[<<n, j, v>>]

\* The step is the named call on node n (as op records it under SpecArgs).
Calling(name, n) == op'.name = name /\ op'.node = n

\* C16: after addValue(k, v), k is bound to v (hasValue(k) is true and
\* getValue(k) returns v) and latest[k] is v's current reading; after
\* removeValue(k), k is absent from values, latest and valueSubscriptions;
\* both leave the bindings under the other keys unchanged.
C16_AddValueBindsRemoveValueUnbinds ==
    [][\A n \in Nodes :
          /\ Calling("addValue", n) =>
                LET k == op'.args[1]
                    v == op'.args[2]
                IN  /\ k \in DOMAIN values'[n]
                    /\ values'[n][k] = v
                    /\ k \in DOMAIN latest'[n]
                    /\ latest'[n][k] = current[v]
                    /\ OtherKeysUnchanged(n, k)
          /\ Calling("removeValue", n) =>
                LET k == op'.args[1]
                IN  /\ k \notin DOMAIN values'[n]
                    /\ k \notin DOMAIN latest'[n]
                    /\ k \notin DOMAIN valueSubscriptions'[n]
                    /\ OtherKeysUnchanged(n, k)]_vars

\* Right after addValue on a node that was never mounted: both keys are bound
\* to one MotionValue and hold its reading.
C16_Witness ==
    /\ op.name = "addValue" /\ op.node = "n1"
    /\ element["n1"] = NoElement
    /\ DOMAIN values["n1"] = Keys
    /\ values["n1"]["x"] = values["n1"]["y"]
    /\ current[values["n1"]["x"]] = "1px"
    /\ latest["n1"]["x"] = "1px" /\ latest["n1"]["y"] = "1px"

\* C17: getValue(k, default) with k unbound returns a new MotionValue whose
\* reading is the default and binds it as addValue does; with k bound it
\* returns the bound value and changes nothing; getValue(k) with k unbound
\* and no default returns undefined and changes nothing.
C17_GetValue ==
    [][\A n \in Nodes :
          Calling("getValue", n) =>
              LET k == op'.args[1]
                  d == op'.args[2]
              IN  IF hasValue(World, n, k)
                  THEN op'.result = values[n][k]
                       /\ latest' = latest /\ OnlyLatestMayChange
                  ELSE IF d = NoDefault
                  THEN op'.result = "undefined"
                       /\ latest' = latest /\ OnlyLatestMayChange
                  ELSE /\ op'.result \in MotionValues
                       /\ Unreferenced(World, op'.result)
                       /\ current' = [current EXCEPT ![op'.result] = d]
                       /\ values'[n] = Put(values[n], k, op'.result)
                       /\ latest'[n] = Put(latest[n], k, d)
                       /\ subscribers'[<<n, k, op'.result>>]
                             = (IF element[n] # NoElement THEN 1 ELSE 0)
                       /\ (k \in DOMAIN valueSubscriptions'[n])
                             <=> (element[n] # NoElement)
                       /\ OtherKeysUnchanged(n, k)]_vars

\* Right after getValue(k, default) on a node that was never mounted: k is
\* bound to the returned value, whose reading the snapshot holds.
C17_Witness ==
    /\ op.name = "getValue" /\ op.node = "n1" /\ op.result \in MotionValues
    /\ element["n1"] = NoElement
    /\ \E k \in Keys :
           /\ DOMAIN values["n1"] = {k}
           /\ values["n1"][k] = op.result
           /\ DOMAIN latest["n1"] = {k}
           /\ latest["n1"][k] = current[op.result]
           /\ \A r \in Registrations : subscribers[r] = 0

\* C18: setStaticValues, with a key and a value or with a mapping, writes the
\* named keys of latest and changes nothing else.
C18_StaticValuesWriteLatestOnly ==
    [][\A n \in Nodes :
          Calling("setStaticValues", n) =>
              /\ OnlyLatestMayChange
              /\ IF Len(op'.args) = 2
                 THEN latest' = [latest EXCEPT
                                    ![n] = Put(@, op'.args[1], op'.args[2])]
                 ELSE LET m == op'.args[1]
                      IN  latest' = [latest EXCEPT ![n] =
                                       [j \in (DOMAIN @) \cup (DOMAIN m) |->
                                           IF j \in DOMAIN m THEN m[j]
                                                             ELSE @[j]]]]_vars

\* Right after setStaticValues on a Mounted node with an update and a render
\* pending: the write overrides the snapshot of a bound value.
C18_Witness ==
    /\ op.name = "setStaticValues" /\ op.node = "n1"
    /\ mounted["n1"]
    /\ syncUpdate # <<>> /\ syncRender # <<>>
    /\ \E k \in DOMAIN values["n1"] :
           /\ subscribers[<<"n1", k, values["n1"][k]>>] = 1
           /\ latest["n1"][k] # current[values["n1"][k]]

\* The live registrations node n holds for key k, on any MotionValue.
RegistrationsUnder(n, k) ==
    Cardinality({p \in MotionValues \X (1..(MaxSubscribers + 1)) :
                    p[2] <= subscribers[<<n, k, p[1]>>]})

\* C19: a node holds at most one live registration per key, and as many live
\* registrations as valueSubscriptions has keys: every registration has the
\* handle that cancels it.
C19_NoDoubleSubscription ==
    \A n \in Nodes :
        /\ \A k \in Keys : RegistrationsUnder(n, k) <= 1
        /\ Total(subscribers, n) = Cardinality(DOMAIN valueSubscriptions[n])

\* C20: a frame never invokes the update callback of a node whose
\* config.onUpdate is absent.
C20_UpdateFiresOnlyWithOnUpdate ==
    \A i \in 1..Len(fired) : fired[i].fn # "TypeError"

=============================================================================
